---- MODULE Spec2Model ----
(***************************************************************************)
(* Model of Zip2S3Uploader (src/main.py): main() downloads a ZIP archive,  *)
(* opens it, and submits one upload_file task per non-directory entry to   *)
(* a ThreadPoolExecutor of concurrency_level workers, then waits.          *)
(*                                                                         *)
(* Environment assumptions (library behaviour that is not in src/):        *)
(*  - requests.get / raise_for_status either raise a RequestException or   *)
(*    hand back the response content;                                      *)
(*  - zipfile.ZipFile raises BadZipFile on bytes that are not a ZIP;       *)
(*  - every entry of an archive that ZipFile could index can be opened     *)
(*    while the archive is open;                                           *)
(*  - ThreadPoolExecutor rejects max_workers <= 0 with ValueError, runs    *)
(*    work items in FIFO order on at most max_workers threads, and stores  *)
(*    an exception raised by a work item in its future;                    *)
(*  - an uncaught exception ends the Python process with exit status 1.    *)
(***************************************************************************)
EXTENDS Integers, Sequences, FiniteSets, TLC

\* ---------------------------------------------------------------- bounds
MaxEntries == 3
MaxConcurrency == 2

\* ---------------------------------------------------------------- inputs
\* File names are sequences of characters; "/" is the ZIP path separator.
FileNames == { <<"a">>, <<"d", "/">>, <<"d", "/", "a">> }

ZipInfo == [filename : FileNames]

RECURSIVE SeqsUpTo(_, _)
SeqsUpTo(S, n) ==
    IF n = 0 THEN { <<>> }
    ELSE LET shorter == SeqsUpTo(S, n - 1)
         IN  shorter \cup { Append(s, x) : s \in { t \in shorter : Len(t) = n - 1 }, x \in S }

Archives == SeqsUpTo(ZipInfo, MaxEntries)

\* bytes handed to ZipFile: a ZIP with a central directory, or anything else
NotAZip == [kind |-> "garbage", infolist |-> <<>>]
NoContent == [kind |-> "none", infolist |-> <<>>]
Contents == { [kind |-> "zip", infolist |-> a] : a \in Archives } \cup { NotAZip }

FetchOutcomes == { "ok", "http_error", "connection_error", "timeout" }

ConcurrencyLevels == (0 - 1) .. MaxConcurrency

ZipUrl == "https://example.com"
BucketName == "test-bucket"

\* exceptions that reach main: the type and, for an aggregate, the keys it lists
NoError == [type |-> "none", keys |-> {}]
Error(type) == [type |-> type, keys |-> {}]

\* ------------------------------------------------------------ variables
VARIABLES
    args,         \* parsed command line: zip_url, bucket, concurrency, verbose
    pc,           \* position of the main thread
    stdout,       \* lines printed so far
    fetched,      \* how requests.get / raise_for_status ended, "none" before
    zip_content,  \* what download_zip returned
    storeFails,   \* indices of the entries whose upload_fileobj raises
    zip_file,     \* "none" | "open" | "closed"
    executor,     \* "none" | "running" | "shutdown"
    idx,          \* position of the for loop in zip_file.infolist()
    futures,      \* the futures list, in submission order
    queue,        \* the executor's work queue (indices into futures)
    putLog,       \* upload_fileobj calls made by the current pipeline call, in order
    bucket,       \* objects in the store: set of [bucket, key, body]
    raised,       \* exception propagating to main: [type, keys]
    exitCode,     \* process exit status, -1 while running
    run,          \* which call of extract_and_upload_file this is (1, 2)
    keysAfterFirst \* keys in the bucket when the first call returned

vars == << args, pc, stdout, fetched, zip_content, storeFails, zip_file, executor, idx,
           futures, queue, putLog, bucket, raised, exitCode, run, keysAfterFirst >>

\* -------------------------------------------------------- pure helpers
\* str.endswith('/')
EndsWithSlash(s) == Len(s) > 0 /\ s[Len(s)] = "/"

IsDirectoryNever(file_info) == FALSE

IsDirectoryLeadingSlash(file_info) ==
    Len(file_info.filename) > 0 /\ file_info.filename[1] = "/"

\* main.py:58  file_info.filename.endswith('/')
IsDirectory(file_info) == EndsWithSlash(file_info.filename)

RECURSIVE LastSlash(_, _)
LastSlash(s, i) ==
    IF i = 0 THEN 0 ELSE IF s[i] = "/" THEN i ELSE LastSlash(s, i - 1)

S3KeyFlattened(file_info) ==
    LET s == file_info.filename
        k == LastSlash(s, Len(s))
    IN  SubSeq(s, k + 1, Len(s))

\* main.py:83  s3_key = file_info.filename
S3Key(file_info) == file_info.filename

MaxWorkersOneMore(concurrency_level) == concurrency_level + 1

MaxWorkersAtLeastOne(concurrency_level) ==
    IF concurrency_level < 1 THEN 1 ELSE concurrency_level

\* main.py:55  ThreadPoolExecutor(max_workers=concurrency_level)
MaxWorkers(concurrency_level) == concurrency_level

IsZipFileAlways(content) == TRUE

\* main.py:54  zipfile.ZipFile(zip_content, 'r') finds a central directory
IsZipFile(content) == content.kind = "zip"

DownloadRaisesOnlyOnTransport(outcome) == outcome \in { "connection_error", "timeout" }

\* main.py:29-34  any RequestException from get / raise_for_status is re-raised
DownloadRaises(outcome) == outcome # "ok"

FutureDoneOnceStarted(f) == f.st # "pending"

\* Future.done()
FutureDone(f) == f.st = "done"

FirstCompleted(futs) ==
    futs = <<>> \/ \E i \in DOMAIN futs : FutureDone(futs[i])

\* main.py:61  concurrent.futures.wait(futures)  (return_when=ALL_COMPLETED)
AllDone(futs) == \A i \in DOMAIN futs : FutureDone(futs[i])

\* tasks a worker has taken from the queue and not yet finished
InFlight(futs) == { i \in DOMAIN futs : futs[i].st \notin { "pending", "done", "cancelled" } }

NewFutureFirstEntry(i) == [entry |-> 1, st |-> "pending", stream |-> "none", outcome |-> "none"]

\* main.py:59  executor.submit(upload_file, zip_file, file_info, ...)
NewFuture(i) == [entry |-> i, st |-> "pending", stream |-> "none", outcome |-> "none"]

CancelPendingOnFailure(futs, q, failed) ==
    IF failed
    THEN << [i \in DOMAIN futs |->
               IF futs[i].st = "pending" THEN [futs[i] EXCEPT !.st = "cancelled"] ELSE futs[i]],
            <<>> >>
    ELSE << futs, q >>

DropQueueOnFailure(futs, q, failed) == << futs, IF failed THEN << >> ELSE q >>

\* main.py:55-59  a work item that raised leaves the other work items alone:
\* the pair (futures, work queue) after a work item ended, failed or not
AfterWorkItem(futs, q, failed) == << futs, q >>

SkipEntryOrDuplicate(infolist, i) ==
    \/ IsDirectory(infolist[i])
    \/ \E j \in 1 .. (i - 1) : infolist[j].filename = infolist[i].filename

\* main.py:58  the entry at position i of infolist() gets no task
SkipEntry(infolist, i) == IsDirectory(infolist[i])

EnqueueFront(q, t) == << t >> \o q

\* main.py:59  executor.submit puts the work item at the back of the work queue
Enqueue(q, t) == Append(q, t)

StreamAfterWithOnSuccessOnly(outcome) ==
    IF outcome = "result" THEN "closed" ELSE "open"

\* main.py:82  the with statement closes the entry stream however its body ended
StreamAfterWith(outcome) == "closed"

PutObjectKeepBoth(objects, call, body) ==
    IF \E o \in objects : o.bucket = call.bucket /\ o.key = call.key
    THEN objects \cup { [bucket |-> call.bucket, key |-> call.key \o << "~" >>, body |-> body] }
    ELSE objects \cup { [bucket |-> call.bucket, key |-> call.key, body |-> body] }

\* main.py:84  a successful upload_fileobj leaves the body under the key,
\* replacing the object that was there
PutObject(objects, call, body) ==
    { o \in objects : ~(o.bucket = call.bucket /\ o.key = call.key) }
       \cup { [bucket |-> call.bucket, key |-> call.key, body |-> body] }

SkipEveryOther(i) == i + 2

\* main.py:57  the for loop advances to the next entry of infolist()
NextEntry(i) == i + 1

\* ---------------------------------------------------------------- Init
Init ==
    /\ args \in [zip_url : {ZipUrl}, bucket : {BucketName},
                 concurrency : ConcurrencyLevels, verbose : BOOLEAN]
    /\ pc = "main"
    /\ stdout = <<>>
    /\ fetched = "none"
    /\ zip_content = NoContent
    /\ storeFails = {}
    /\ zip_file = "none"
    /\ executor = "none"
    /\ idx = 0
    /\ futures = <<>>
    /\ queue = <<>>
    /\ putLog = <<>>
    /\ bucket = {}
    /\ raised = NoError
    /\ exitCode = 0 - 1
    /\ run = 1
    /\ keysAfterFirst = {}

\* ------------------------------------------------------------- actions
\* main.py:107-124  main() up to the call of extract_and_upload_file
Main ==
    /\ pc = "main"
    /\ stdout' = IF args.verbose
                 THEN Append(stdout, << "Downloading ZIP archive from ", args.zip_url >>)
                 ELSE stdout
    /\ pc' = "download"
    /\ UNCHANGED << args, fetched, zip_content, storeFails, zip_file, executor, idx,
                    futures, queue, putLog, bucket, raised, exitCode,
                    run, keysAfterFirst >>

\* main.py:19-34, 53  download_zip(zip_url)
DownloadZip ==
    /\ pc = "download"
    /\ \E outcome \in FetchOutcomes :
          /\ fetched' = outcome
          /\ IF DownloadRaises(outcome)
             THEN /\ raised' = Error("Exception")
                  /\ pc' = "raised"
                  /\ UNCHANGED << zip_content, storeFails >>
             ELSE /\ \E c \in Contents :
                        /\ zip_content' = c
                        /\ storeFails' \in SUBSET (1 .. Len(c.infolist))
                  /\ pc' = "open_zip"
                  /\ UNCHANGED raised
    /\ UNCHANGED << args, stdout, zip_file, executor, idx, futures, queue,
                    putLog, bucket, exitCode,
                    run, keysAfterFirst >>

\* main.py:54  with zipfile.ZipFile(zip_content, 'r') as zip_file
OpenZip ==
    /\ pc = "open_zip"
    /\ IF ~IsZipFile(zip_content)
       THEN /\ raised' = Error("BadZipFile")
            /\ pc' = "raised"
            /\ UNCHANGED zip_file
       ELSE /\ zip_file' = "open"
            /\ pc' = "make_pool"
            /\ UNCHANGED raised
    /\ UNCHANGED << args, stdout, fetched, zip_content, storeFails, executor, idx,
                    futures, queue, putLog, bucket, exitCode,
                    run, keysAfterFirst >>

\* main.py:55-56  with ThreadPoolExecutor(max_workers=...) as executor; futures = []
MakePool ==
    /\ pc = "make_pool"
    /\ IF MaxWorkers(args.concurrency) <= 0
       THEN /\ raised' = Error("ValueError")
            /\ zip_file' = "closed"
            /\ pc' = "raised"
            /\ UNCHANGED << executor, idx >>
       ELSE /\ executor' = "running"
            /\ idx' = 1
            /\ pc' = "loop"
            /\ UNCHANGED << raised, zip_file >>
    /\ UNCHANGED << args, stdout, fetched, zip_content, storeFails, futures, queue,
                    putLog, bucket, exitCode,
                    run, keysAfterFirst >>

\* main.py:57-59  one iteration of the for loop
Submit ==
    /\ pc = "loop"
    /\ idx <= Len(zip_content.infolist)
    /\ IF ~SkipEntry(zip_content.infolist, idx)
       THEN /\ futures' = Append(futures, NewFuture(idx))
            /\ queue' = Enqueue(queue, Len(futures) + 1)
       ELSE UNCHANGED << futures, queue >>
    /\ idx' = NextEntry(idx)
    /\ UNCHANGED << args, pc, stdout, fetched, zip_content, storeFails, zip_file,
                    executor, putLog, bucket, raised, exitCode,
                    run, keysAfterFirst >>

\* main.py:57  the for loop is exhausted
LoopEnd ==
    /\ pc = "loop"
    /\ idx > Len(zip_content.infolist)
    /\ pc' = "wait"
    /\ UNCHANGED << args, stdout, fetched, zip_content, storeFails, zip_file, executor,
                    idx, futures, queue, putLog, bucket, raised, exitCode,
                    run, keysAfterFirst >>

\* main.py:61  concurrent.futures.wait(futures)
Wait ==
    /\ pc = "wait"
    /\ AllDone(futures)
    /\ pc' = "shutdown"
    /\ UNCHANGED << args, stdout, fetched, zip_content, storeFails, zip_file, executor,
                    idx, futures, queue, putLog, bucket, raised, exitCode,
                    run, keysAfterFirst >>

\* main.py:55  leaving the executor's with block: shutdown(wait=True) joins the
\* worker threads, which exit once every work item has run
Shutdown ==
    /\ pc = "shutdown"
    /\ AllDone(futures)
    /\ executor' = "shutdown"
    /\ pc' = "close_zip"
    /\ UNCHANGED << args, stdout, fetched, zip_content, storeFails, zip_file, idx,
                    futures, queue, putLog, bucket, raised, exitCode,
                    run, keysAfterFirst >>

\* main.py:54  leaving the ZipFile's with block, then returning to main
CloseZip ==
    /\ pc = "close_zip"
    /\ zip_file' = "closed"
    /\ pc' = "returned"
    /\ UNCHANGED << args, stdout, fetched, zip_content, storeFails, executor, idx,
                    futures, queue, putLog, bucket, raised, exitCode,
                    run, keysAfterFirst >>

\* main.py:124-128  extract_and_upload_file returned, main returns
MainReturn ==
    /\ pc = "returned"
    /\ pc' = "exit"
    /\ exitCode' = 0
    /\ UNCHANGED << args, stdout, fetched, zip_content, storeFails, zip_file, executor,
                    idx, futures, queue, putLog, bucket, raised,
                    run, keysAfterFirst >>

\* main.py:124-128  the exception is caught nowhere: traceback, exit status 1
Uncaught ==
    /\ pc = "raised"
    /\ pc' = "exit"
    /\ exitCode' = 1
    /\ UNCHANGED << args, stdout, fetched, zip_content, storeFails, zip_file, executor,
                    idx, futures, queue, putLog, bucket, raised,
                    run, keysAfterFirst >>

\* main.py:82  a worker thread takes the oldest work item and opens the entry
WorkerStart ==
    /\ executor = "running"
    /\ queue # <<>>
    /\ Cardinality(InFlight(futures)) < MaxWorkers(args.concurrency)
    /\ LET t == Head(queue)
       IN  futures' = [futures EXCEPT ![t] =
                          IF zip_file = "open"
                          THEN [@ EXCEPT !.st = "opened", !.stream = "open"]
                          ELSE [@ EXCEPT !.st = "raised", !.outcome = "exception"]]
    /\ queue' = Tail(queue)
    /\ UNCHANGED << args, pc, stdout, fetched, zip_content, storeFails, zip_file,
                    executor, idx, putLog, bucket, raised, exitCode,
                    run, keysAfterFirst >>

\* main.py:83-84  s3_client.upload_fileobj(file, bucket_name, s3_key)
WorkerPut(t) ==
    /\ t \in DOMAIN futures
    /\ futures[t].st = "opened"
    /\ LET e == futures[t].entry
           file_info == zip_content.infolist[e]
           call == [bucket |-> args.bucket, key |-> S3Key(file_info), entry |-> e]
       IN  /\ putLog' = Append(putLog, call)
           /\ IF e \in storeFails
              THEN /\ futures' = [futures EXCEPT ![t].st = "put_raised",
                                                 ![t].outcome = "exception"]
                   /\ UNCHANGED bucket
              ELSE /\ futures' = [futures EXCEPT ![t].st = "put_returned",
                                                 ![t].outcome = "result"]
                   /\ bucket' = PutObject(bucket, call, e)
    /\ UNCHANGED << args, pc, stdout, fetched, zip_content, storeFails, zip_file,
                    executor, idx, queue, raised, exitCode,
                    run, keysAfterFirst >>

\* main.py:82  leaving the with block of upload_file closes the entry stream
WorkerClose(t) ==
    /\ t \in DOMAIN futures
    /\ futures[t].st \in { "put_raised", "put_returned" }
    /\ futures' = [futures EXCEPT ![t].st = "closed",
                                  ![t].stream = StreamAfterWith(futures[t].outcome)]
    /\ UNCHANGED << args, pc, stdout, fetched, zip_content, storeFails, zip_file,
                    executor, idx, queue, putLog, bucket, raised, exitCode,
                    run, keysAfterFirst >>

\* the work item ends: the future gets its result or its exception
WorkerFinish(t) ==
    /\ t \in DOMAIN futures
    /\ futures[t].st \in { "closed", "raised" }
    /\ LET failed == futures[t].outcome = "exception"
           after == AfterWorkItem([futures EXCEPT ![t].st = "done"], queue, failed)
       IN  /\ futures' = after[1]
           /\ queue' = after[2]
    /\ UNCHANGED << args, pc, stdout, fetched, zip_content, storeFails, zip_file,
                    executor, idx, putLog, bucket, raised, exitCode,
                    run, keysAfterFirst >>

Next ==
    \/ Main
    \/ DownloadZip
    \/ OpenZip
    \/ MakePool
    \/ Submit
    \/ LoopEnd
    \/ Wait
    \/ Shutdown
    \/ CloseZip
    \/ MainReturn
    \/ Uncaught
    \/ WorkerStart
    \/ \E t \in 1 .. MaxEntries : WorkerPut(t)
    \/ \E t \in 1 .. MaxEntries : WorkerClose(t)
    \/ \E t \in 1 .. MaxEntries : WorkerFinish(t)

Spec == Init /\ [][Next]_vars

\* main.py:53-61  the caller calls extract_and_upload_file a second time with the
\* same arguments; the URL serves the same bytes and the store is the same
Rerun ==
    /\ pc = "returned"
    /\ run = 1
    /\ run' = 2
    /\ keysAfterFirst' = { o.key : o \in bucket }
    /\ pc' = "open_zip"
    /\ zip_file' = "none"
    /\ executor' = "none"
    /\ idx' = 0
    /\ futures' = <<>>
    /\ queue' = <<>>
    /\ putLog' = <<>>
    /\ UNCHANGED << args, stdout, fetched, zip_content, storeFails, bucket,
                    raised, exitCode >>

NextTwice == Next \/ Rerun

SpecTwice == Init /\ [][NextTwice]_vars

\* the steps of the thread that runs main and extract_and_upload_file
MainThread ==
    \/ Main \/ DownloadZip \/ OpenZip \/ MakePool \/ Submit \/ LoopEnd
    \/ Wait \/ Shutdown \/ CloseZip \/ MainReturn \/ Uncaught

\* the steps of the executor's worker threads
Workers ==
    \/ WorkerStart
    \/ \E t \in 1 .. MaxEntries : WorkerPut(t)
    \/ \E t \in 1 .. MaxEntries : WorkerClose(t)
    \/ \E t \in 1 .. MaxEntries : WorkerFinish(t)

\* the scheduler lets the main thread run when it can, lets the workers run
\* when one of them can, and every upload_fileobj call returns or raises
\* main.py:107-112  the runs without --verbose (the flag only adds a line to stdout)
FairInit == Init /\ ~args.verbose

FairSpec == FairInit /\ [][Next]_vars /\ WF_vars(MainThread) /\ WF_vars(Workers)

TypeOK ==
    /\ pc \in { "main", "download", "open_zip", "make_pool", "loop", "wait",
                "shutdown", "close_zip", "returned", "raised", "exit" }
    /\ zip_file \in { "none", "open", "closed" }
    /\ executor \in { "none", "running", "shutdown" }
    /\ raised.type \in { "none", "Exception", "BadZipFile", "ValueError" }
    /\ fetched \in FetchOutcomes \cup { "none" }
    /\ exitCode \in { 0 - 1, 0, 1 }
    /\ run \in { 1, 2 }

\* ------------------------------------------------- vocabulary of the claims
\* extract_and_upload_file has returned normally to main
Returned == pc = "returned" \/ (pc = "exit" /\ raised.type = "none")

\* indices of the archive's non-directory entries, read off the raw names
Entries == zip_content.infolist
NonDirEntries == { e \in DOMAIN Entries :
                     ~(Len(Entries[e].filename) > 0
                       /\ Entries[e].filename[Len(Entries[e].filename)] = "/") }
DirEntries == DOMAIN Entries \ NonDirEntries

TasksOf(e) == { t \in DOMAIN futures : futures[t].entry = e }
PutsOf(e) == { k \in DOMAIN putLog : putLog[k].entry = e }
FailedPuts == { k \in DOMAIN putLog : putLog[k].entry \in storeFails }
FailedKeys == { putLog[k].key : k \in FailedPuts }
StartedStates == { "opened", "put_raised", "put_returned", "closed", "raised" }
InFlightCount == Cardinality({ t \in DOMAIN futures : futures[t].st \in StartedStates })

\* C1: once extract_and_upload_file has returned, every non-directory entry
\* has exactly one upload task and exactly one upload_fileobj attempt, there
\* are N tasks and N attempts in all, and when no put failed the keys in the
\* bucket are exactly the non-directory entry paths.
C1_OneTaskAndPutPerEntry ==
    Returned =>
        /\ \A e \in NonDirEntries :
              Cardinality(TasksOf(e)) = 1 /\ Cardinality(PutsOf(e)) = 1
        /\ Len(futures) = Cardinality(NonDirEntries)
        /\ Len(putLog) = Cardinality(NonDirEntries)
        /\ (storeFails \cap NonDirEntries = {}) =>
              { o.key : o \in bucket } = { Entries[e].filename : e \in NonDirEntries }

C1_Witness ==
    /\ Returned
    /\ args.concurrency = 2
    /\ Cardinality(NonDirEntries) = 2
    /\ DirEntries # {}
    /\ storeFails = {}
    /\ Cardinality(bucket) = 2

\* C2: whenever extract_and_upload_file has returned to its caller, no upload
\* task is pending in the queue or in flight in a worker.
C2_NoTaskLeftAtReturn ==
    Returned =>
        /\ queue = <<>>
        /\ \A t \in DOMAIN futures : futures[t].st = "done"

C2_Witness ==
    /\ pc = "returned"
    /\ Len(futures) = 3
    /\ args.concurrency = 2

\* C3: no task is ever cancelled, and whatever subset of the puts fails, once
\* the pipeline has returned every non-directory entry has had exactly one
\* upload attempt and every task ran to its own result or exception.
C3_FailureDoesNotStopSiblings ==
    /\ \A t \in DOMAIN futures : futures[t].st # "cancelled"
    /\ Returned =>
          \A e \in NonDirEntries :
             /\ Cardinality(PutsOf(e)) = 1
             /\ \A t \in TasksOf(e) :
                   futures[t].outcome = IF e \in storeFails THEN "exception" ELSE "result"

C3_Witness ==
    /\ Returned
    /\ Len(putLog) = 3
    /\ putLog[1].entry \in storeFails
    /\ putLog[2].entry \notin storeFails
    /\ putLog[3].entry \notin storeFails

\* C4: after the join, a PartialUploadError listing exactly the keys whose
\* put failed is surfaced when at least one put failed, and no error is
\* surfaced when none failed.
C4_PartialUploadErrorSurfaced ==
    (executor = "shutdown" /\ pc \in { "returned", "raised", "exit" }) =>
        IF FailedPuts # {}
        THEN raised.type = "PartialUploadError" /\ raised.keys = FailedKeys
        ELSE raised.type = "none"

\* C5: the process exits non-zero if the fetch failed or any put failed, and
\* exits zero only when every non-directory entry was uploaded successfully.
C5_ExitStatusReflectsFailures ==
    pc = "exit" =>
        /\ (fetched # "ok" \/ FailedPuts # {}) => exitCode # 0
        /\ exitCode = 0 =>
              \A e \in NonDirEntries :
                 \E k \in PutsOf(e) : putLog[k].entry \notin storeFails

\* C6: once the fetch has failed, download_zip has raised, the archive was
\* never opened, no pool was created, no task dispatched and no put made, and
\* the run ends with a non-zero status.
C6_FetchFailureBeforeAnyStoreCall ==
    (fetched \notin { "none", "ok" }) =>
        /\ raised.type = "Exception"
        /\ pc \in { "raised", "exit" }
        /\ zip_file = "none"
        /\ executor = "none"
        /\ futures = <<>>
        /\ putLog = <<>>
        /\ bucket = {}
        /\ pc = "exit" => exitCode = 1

C6_Witness ==
    /\ fetched = "http_error"
    /\ pc = "exit"

\* C7: the number of tasks a worker has started and not finished never
\* exceeds the configured concurrency (and is zero when that is below 1).
C7_InFlightBounded ==
    InFlightCount <= (IF args.concurrency >= 1 THEN args.concurrency ELSE 0)

C7_Witness ==
    /\ args.concurrency = 2
    /\ InFlightCount = 2
    /\ queue # <<>>

\* C8: no upload task and no put call is ever made for an entry whose path
\* ends in '/'.
C8_DirectoriesNeverUploaded ==
    /\ \A t \in DOMAIN futures : futures[t].entry \in NonDirEntries
    /\ \A k \in DOMAIN putLog : putLog[k].entry \in NonDirEntries
    /\ \A o \in bucket : o.body \in NonDirEntries

C8_Witness ==
    /\ Returned
    /\ DirEntries # {}
    /\ args.concurrency = 2
    /\ Len(putLog) = 2

\* C9: every put call targets the configured bucket under the key that is the
\* archive path of the entry it uploads, character for character.
C9_KeyIsEntryPathVerbatim ==
    \A k \in DOMAIN putLog :
       /\ putLog[k].bucket = args.bucket
       /\ putLog[k].key = Entries[putLog[k].entry].filename

C9_Witness ==
    \E k \in DOMAIN putLog :
       /\ putLog[k].key = << "d", "/", "a" >>
       /\ [bucket |-> BucketName, key |-> << "d", "/", "a" >>, body |-> putLog[k].entry] \in bucket

\* C10: at the end of a successful run main has printed exactly the three
\* status lines, in order, when --verbose is set, and nothing otherwise.
C10_VerboseThreeLines ==
    (pc = "exit" /\ exitCode = 0) =>
        stdout = IF args.verbose
                 THEN << << "Downloading ZIP archive from ", args.zip_url >>,
                         << "Extracting and uploading files to S3" >>,
                         << "Processing with ", args.concurrency, " concurrency level" >> >>
                 ELSE <<>>

\* C11: the keys attempted and the keys uploaded by a run are fixed by the
\* archive and the store alone: once the pipeline has returned, the attempted
\* keys are the non-directory paths and the keys in the bucket are the paths
\* of the entries the store accepts, for concurrency 1 and for any higher
\* concurrency, whatever the interleaving of the workers.
C11_ResultIndependentOfConcurrency ==
    Returned =>
        /\ { putLog[k].key : k \in DOMAIN putLog }
              = { Entries[e].filename : e \in NonDirEntries }
        /\ { o.key : o \in bucket }
              = { Entries[e].filename : e \in NonDirEntries \ storeFails }

\* a run with two workers whose puts were issued out of archive order, with
\* one key rejected and two keys stored
C11_Witness ==
    /\ Returned
    /\ args.concurrency = 2
    /\ Len(putLog) = 3
    /\ putLog[1].entry > putLog[2].entry
    /\ Cardinality(storeFails \cap NonDirEntries) = 1
    /\ Cardinality(bucket) = 2

\* C12: for an archive without non-directory entries (empty or directories
\* only) and a concurrency of at least 1, no task is dispatched, no put is
\* made, no error is raised and the run ends with status 0.
C12_NoFileEntriesNoPut ==
    (zip_content.kind = "zip" /\ NonDirEntries = {} /\ args.concurrency >= 1) =>
        /\ futures = <<>>
        /\ putLog = <<>>
        /\ bucket = {}
        /\ raised.type = "none"
        /\ pc = "exit" => exitCode = 0

C12_Witness ==
    /\ pc = "exit"
    /\ exitCode = 0
    /\ zip_content.kind = "zip"
    /\ Len(Entries) = 2
    /\ NonDirEntries = {}

\* C13: with a concurrency below 1 no pool is created, no task dispatched and
\* no put made; the pipeline never returns normally and the run ends with an
\* error and a non-zero status.
C13_ConcurrencyBelowOneIsError ==
    (args.concurrency < 1) =>
        /\ executor = "none"
        /\ futures = <<>>
        /\ putLog = <<>>
        /\ ~Returned
        /\ pc = "exit" => (raised.type # "none" /\ exitCode = 1)

C13_Witness ==
    /\ pc = "exit"
    /\ args.concurrency = 0
    /\ raised.type = "ValueError"
    /\ NonDirEntries # {}

\* C14: once bytes that are not a ZIP archive have been handed to ZipFile,
\* BadZipFile propagates to the caller: no pool is created, no task is
\* dispatched, no put is made and the run ends with a non-zero status.
C14_CorruptArchiveIsFatal ==
    (zip_content.kind = "garbage" /\ pc # "open_zip") =>
        /\ raised.type = "BadZipFile"
        /\ pc \in { "raised", "exit" }
        /\ zip_file = "none"
        /\ executor = "none"
        /\ futures = <<>>
        /\ putLog = <<>>
        /\ pc = "exit" => exitCode = 1

C14_Witness ==
    /\ zip_content.kind = "garbage"
    /\ pc = "exit"
    /\ args.concurrency >= 1

\* C16: an entry has at most one task and so one stream; a stream is open
\* only while its worker is between opening it and leaving upload_file; it
\* is closed, after a successful and after a failed put alike, before the
\* task is reported finished; once the pipeline has returned none is open.
C16_StreamClosedOnEveryExitPath ==
    /\ \A e \in DOMAIN Entries : Cardinality(TasksOf(e)) <= 1
    /\ \A t \in DOMAIN futures :
          /\ futures[t].st = "pending" => futures[t].stream = "none"
          /\ futures[t].stream = "open"
                => futures[t].st \in { "opened", "put_raised", "put_returned" }
          /\ (futures[t].st \in { "closed", "done" } /\ PutsOf(futures[t].entry) # {})
                => futures[t].stream = "closed"
    /\ Returned => \A t \in DOMAIN futures : futures[t].stream # "open"

C16_Witness ==
    \E t1, t2, t3 \in DOMAIN futures :
       /\ futures[t1].st = "done" /\ futures[t1].outcome = "exception"
       /\ futures[t1].stream = "closed"
       /\ futures[t2].st = "done" /\ futures[t2].outcome = "result"
       /\ futures[t2].stream = "closed"
       /\ futures[t3].stream = "open"

\* C17: once the pipeline has returned, every key has been attempted as many
\* times as there are non-directory entries with that path, so two entries
\* with the same path give two puts to the same key and the number of puts
\* is the number of non-directory entries.
C17_DuplicatePathsEachAttempted ==
    Returned =>
        /\ \A name \in FileNames :
              Cardinality({ k \in DOMAIN putLog : putLog[k].key = name })
                 = Cardinality({ e \in NonDirEntries : Entries[e].filename = name })
        /\ Len(putLog) = Cardinality(NonDirEntries)

C17_Witness ==
    /\ Returned
    /\ Len(putLog) = 2
    /\ putLog[1].key = putLog[2].key
    /\ putLog[1].entry # putLog[2].entry

\* C18: the archive is open whenever a task is queued, is opening its entry
\* or has its stream open; no task ever finds the archive closed; and the
\* archive is closed only once the pool has shut down with every task done.
C18_ArchiveOpenWhileWorkersRead ==
    /\ \A t \in DOMAIN futures :
          /\ futures[t].st \in { "pending", "opened", "put_raised", "put_returned", "closed" }
                => zip_file = "open"
          /\ futures[t].stream = "open" => zip_file = "open"
          /\ futures[t].st # "raised"
    /\ (zip_file = "closed" /\ executor # "none") =>
          /\ executor = "shutdown"
          /\ queue = <<>>
          /\ \A t \in DOMAIN futures : futures[t].st = "done"

C18_Witness ==
    /\ zip_file = "closed"
    /\ executor = "shutdown"
    /\ Len(futures) = 2
    /\ \E t \in DOMAIN futures : futures[t].outcome = "exception"

\* the stored entries with a given path
AcceptedWithKey(key) ==
    { e \in NonDirEntries \ storeFails : Entries[e].filename = key }
MaxOf(S) == CHOOSE m \in S : \A x \in S : x <= m

\* C19: tasks are dispatched in archive-index order; with concurrency 1 the
\* puts are issued in that order, one at a time, so the object left under a
\* key is the last accepted entry with that path; with a higher concurrency
\* the object is one of the accepted entries with that path.
C19_IndexOrderAndLastWriter ==
    /\ \A i, j \in DOMAIN futures : i < j => futures[i].entry < futures[j].entry
    /\ args.concurrency = 1 =>
          /\ \A i, j \in DOMAIN putLog : i < j => putLog[i].entry < putLog[j].entry
          /\ InFlightCount <= 1
          /\ Returned => \A o \in bucket : o.body = MaxOf(AcceptedWithKey(o.key))
    /\ (args.concurrency > 1 /\ Returned) =>
          \A o \in bucket : o.body \in AcceptedWithKey(o.key)

\* two workers, two entries with one path: the earlier entry is the one left
C19_Witness ==
    /\ Returned
    /\ args.concurrency = 2
    /\ \E o \in bucket : o.body < MaxOf(AcceptedWithKey(o.key))

\* with one worker, two accepted entries with one path: the later one is left
C19_SequentialCase ==
    /\ Returned
    /\ args.concurrency = 1
    /\ \E o \in bucket : Cardinality(AcceptedWithKey(o.key)) = 2

\* C20: under fair scheduling, once the archive is open and the concurrency
\* is at least 1, extract_and_upload_file eventually returns, whichever puts
\* fail.
C20_PipelineEventuallyReturns ==
    (pc = "make_pool" /\ args.concurrency >= 1) ~> (pc = "returned")

\* the pipeline has returned from a run with three tasks whose puts all failed
C20_Witness ==
    /\ pc = "returned"
    /\ Len(futures) = 3
    /\ storeFails = { 1, 2, 3 }

\* C15: when a second call of the pipeline on the same archive and the same
\* store has returned, the keys in the bucket are the keys that were there
\* when the first call returned.
C15_SecondRunSameKeys ==
    (run = 2 /\ Returned) => { o.key : o \in bucket } = keysAfterFirst

\* the second call has returned after three puts, two of them to one key
C15_Witness ==
    /\ run = 2
    /\ Returned
    /\ Len(putLog) = 3
    /\ Cardinality(keysAfterFirst) = 2
    /\ storeFails = {}
====
